---- MODULE Spec2Model ----
(***************************************************************************)
(* Relative lock times (bitcoin/src/blockdata/locktime/relative.rs).       *)
(*                                                                         *)
(* The module is a library of pure functions over immutable values.  Each  *)
(* function is an operator, computed as the code computes it; each         *)
(* specification draws the inputs of a group of calls in its initial       *)
(* state, and one action per function applies it and records what it       *)
(* returned.                                                               *)
(***************************************************************************)
EXTENDS Integers, Sequences, FiniteSets

VARIABLES
    seconds,          \* the u32 argument of Time::from_seconds_ceil
    overflow_checks,  \* whether the build checks integer overflow
    conv,             \* what Time::from_seconds_ceil(seconds) returned
    locks,            \* the lock times the calls are made on
    obs,              \* the observed (height, time) operands
    by_height,        \* <<i, k>> -> locks[i].is_satisfied_by_height(obs[k].h)
    by_time,          \* <<i, k>> -> locks[i].is_satisfied_by_time(obs[k].t)
    sat,              \* <<i, k>> -> locks[i].is_satisfied_by(obs[k].h, obs[k].t)
    implied           \* <<i, j>> -> locks[i].is_implied_by(locks[j])

vars == <<seconds, overflow_checks, conv, locks, obs, by_height, by_time, sat, implied>>

---------------------------------------------------------------------------
(* Bounds of the model: the inputs are drawn from windows at both ends of  *)
(* the integer ranges and around the places where the results change.      *)

\* 16-bit inputs: the Window smallest and the Window largest values.
Window == 2

\* u32 seconds: this many values beyond each end of the sampled ranges.
SecWindow == 2

---------------------------------------------------------------------------
(* Program constants.                                                      *)

\* u16::max_value()
U16Max == 65535

\* The divisor of from_seconds_ceil: seconds per interval.
IntervalSeconds == 512

\* The addend of the ceiling division of from_seconds_ceil.
CeilAddend == 511

\* A u32 is kept as two 16-bit limbs, so that no intermediate value of the
\* model leaves the range of TLC's integers.
Limb == U16Max + 1

U32(hi, lo) == [hi |-> hi, lo |-> lo]

\* The u32 of a non-negative integer below 2^31.
u32_from(n) == U32(n \div Limb, n % Limb)

u32_le(x, y) == x.hi < y.hi \/ (x.hi = y.hi /\ x.lo <= y.lo)

u32_lt(x, y) == ~u32_le(y, x)

---------------------------------------------------------------------------
(* Values.                                                                 *)

\* pub struct Height(u16)
Height(v) == [ty |-> "Height", v |-> v]

\* pub struct Time(u16)
Time(v) == [ty |-> "Time", v |-> v]

\* Height::value, Time::value: the inner u16.
value(x) == x.v

\* Time::from_512_second_intervals
from_512_second_intervals(intervals) == Time(intervals)

\* enum LockTime { Blocks(Height), Time(Time) }
Blocks(height) == [tag |-> "Blocks", inner |-> height]

TimeLock(time) == [tag |-> "Time", inner |-> time]

\* Result values.
Ok(v) == [tag |-> "Ok", val |-> v]

Err(e) == [tag |-> "Err", err |-> e]

\* The call aborted (a panic): nothing is returned.
Panic == [tag |-> "Panic"]

\* No call has been made yet.
None == [tag |-> "None"]

\* The value a call that cannot fail returned.
Ret(v) == [tag |-> "Ret", val |-> v]

TimeOverflowError(s) == [type |-> "TimeOverflowError", seconds |-> s]

IncompatibleHeightError(height, time) ==
    [type |-> "IncompatibleHeightError", height |-> height, time |-> time]

IncompatibleTimeError(time, height) ==
    [type |-> "IncompatibleTimeError", time |-> time, height |-> height]

---------------------------------------------------------------------------
(* Time::from_seconds_ceil.                                                *)

\* seconds + k in u32.  A sum that does not fit panics in a build with
\* overflow checks and wraps modulo 2^32 in a build without them.
u32_add(x, k, checks) ==
    LET lo == x.lo + k
        hi == x.hi + (lo \div Limb)
    IN  IF hi >= Limb /\ checks
        THEN Panic
        ELSE Ret(U32(hi % Limb, lo % Limb))

\* x / d in u32 (truncating), for a divisor d of 2^16; the quotient is at
\* most 2^32 / d and is returned as an integer.
u32_div(x, d) == x.hi * (Limb \div d) + (x.lo \div d)

\* u16::try_from(n)
u16_try_from(n) == IF n <= U16Max THEN Ok(n) ELSE Err("TryFromIntError")

\* from_seconds_ceil with truncating division: the addend is left out.
from_seconds_floor(secs, checks) ==
    LET interval == u16_try_from(u32_div(secs, IntervalSeconds))
    IN  IF interval.tag = "Ok"
        THEN Ok(from_512_second_intervals(interval.val))
        ELSE Err(TimeOverflowError(secs))

\* Time::from_seconds_ceil(seconds)
from_seconds_ceil(secs, checks) ==
    LET sum == u32_add(secs, CeilAddend, checks)
    IN  IF sum.tag = "Panic"
        THEN Panic
        ELSE LET interval == u16_try_from(u32_div(sum.val, IntervalSeconds))
             IN  IF interval.tag = "Ok"
                 THEN Ok(from_512_second_intervals(interval.val))
                 ELSE Err(TimeOverflowError(secs))

---------------------------------------------------------------------------
(* LockTime's predicates.                                                  *)

\* is_satisfied_by_height with a strict comparison.
is_satisfied_by_height_strict(self, height) ==
    IF self.tag = "Blocks"
    THEN Ok(value(self.inner) < value(height))
    ELSE Err(IncompatibleHeightError(height, self.inner))

\* is_satisfied_by_height with the operands of the comparison exchanged.
is_satisfied_by_height_exchanged(self, height) ==
    IF self.tag = "Blocks"
    THEN Ok(value(height) <= value(self.inner))
    ELSE Err(IncompatibleHeightError(height, self.inner))

\* LockTime::is_satisfied_by_height(&self, height)
is_satisfied_by_height(self, height) ==
    IF self.tag = "Blocks"
    THEN Ok(value(self.inner) <= value(height))
    ELSE Err(IncompatibleHeightError(height, self.inner))

\* is_satisfied_by_time answering Ok(false) for a lock of the other unit.
is_satisfied_by_time_lenient(self, time) ==
    IF self.tag = "Time"
    THEN Ok(value(self.inner) <= value(time))
    ELSE Ok(FALSE)

\* LockTime::is_satisfied_by_time(&self, time)
is_satisfied_by_time(self, time) ==
    IF self.tag = "Time"
    THEN Ok(value(self.inner) <= value(time))
    ELSE Err(IncompatibleTimeError(time, self.inner))

\* is_satisfied_by taking every answer but Ok(false) of the time predicate
\* as satisfaction.
is_satisfied_by_unless_refused(self, h, t) ==
    IF is_satisfied_by_height(self, h) = Ok(TRUE)
    THEN TRUE
    ELSE is_satisfied_by_time(self, t) # Ok(FALSE)

\* LockTime::is_satisfied_by(&self, h, t)
is_satisfied_by(self, h, t) ==
    IF is_satisfied_by_height(self, h) = Ok(TRUE)
    THEN TRUE
    ELSE is_satisfied_by_time(self, t) = Ok(TRUE)

\* is_implied_by comparing the inner values whatever the units.
is_implied_by_any_unit(self, other) ==
    value(self.inner) <= value(other.inner)

\* is_implied_by with the comparison reversed.
is_implied_by_reversed(self, other) ==
    CASE self.tag = "Blocks" /\ other.tag = "Blocks" ->
             value(self.inner) >= value(other.inner)
      [] self.tag = "Time" /\ other.tag = "Time" ->
             value(self.inner) >= value(other.inner)
      [] OTHER -> FALSE

\* is_implied_by with a strict comparison.
is_implied_by_strict(self, other) ==
    CASE self.tag = "Blocks" /\ other.tag = "Blocks" ->
             value(self.inner) < value(other.inner)
      [] self.tag = "Time" /\ other.tag = "Time" ->
             value(self.inner) < value(other.inner)
      [] OTHER -> FALSE

\* LockTime::is_implied_by(&self, other)
is_implied_by(self, other) ==
    CASE self.tag = "Blocks" /\ other.tag = "Blocks" ->
             value(self.inner) <= value(other.inner)
      [] self.tag = "Time" /\ other.tag = "Time" ->
             value(self.inner) <= value(other.inner)
      [] OTHER -> FALSE

---------------------------------------------------------------------------
(* Inputs.                                                                 *)

\* The lock values of the module's tests: Height::from(10) and
\* Time::from_512_second_intervals(70).
TestValues == {10, 70}

U16Samples ==
    (0 .. (Window - 1)) \cup TestValues \cup ((U16Max - Window + 1) .. U16Max)

Heights == {Height(v) : v \in U16Samples}

Times == {from_512_second_intervals(v) : v \in U16Samples}

\* From<Height> for LockTime, From<Time> for LockTime
LockTimes == {Blocks(x) : x \in Heights} \cup {TimeLock(x) : x \in Times}

Observations == [h : Heights, t : Times]

\* The largest seconds value with ceil(seconds / 512) <= u16::MAX.
LastFitting == U16Max * IntervalSeconds

\* u32 seconds: around 0 and the first two interval ends, around the place
\* where the interval count leaves 16 bits, one value in the middle of the
\* range, and the top of the range, where seconds + 511 leaves 32 bits.
SecondsSamples ==
    {u32_from(n) : n \in 0 .. (2 * IntervalSeconds + SecWindow)}
    \cup {u32_from(n) : n \in (LastFitting - SecWindow)
                               .. (LastFitting + CeilAddend + SecWindow)}
    \cup {U32(Limb \div 2, 0)}
    \cup {U32(U16Max, lo) : lo \in (U16Max - CeilAddend - SecWindow) .. U16Max}

---------------------------------------------------------------------------
(* Actions: one per function, applied to inputs of the initial state.      *)

Pending(f) == {p \in DOMAIN f : f[p] = None}

FromSecondsCeil ==
    /\ conv = None
    /\ conv' = from_seconds_ceil(seconds, overflow_checks)
    /\ UNCHANGED <<seconds, overflow_checks, locks, obs, by_height, by_time,
                   sat, implied>>

IsSatisfiedByHeight ==
    \E p \in Pending(by_height) :
        /\ by_height' = [by_height EXCEPT
               ![p] = is_satisfied_by_height(locks[p[1]], obs[p[2]].h)]
        /\ UNCHANGED <<seconds, overflow_checks, conv, locks, obs, by_time,
                       sat, implied>>

IsSatisfiedByTime ==
    \E p \in Pending(by_time) :
        /\ by_time' = [by_time EXCEPT
               ![p] = is_satisfied_by_time(locks[p[1]], obs[p[2]].t)]
        /\ UNCHANGED <<seconds, overflow_checks, conv, locks, obs, by_height,
                       sat, implied>>

IsSatisfiedBy ==
    \E p \in Pending(sat) :
        /\ sat' = [sat EXCEPT
               ![p] = Ret(is_satisfied_by(locks[p[1]], obs[p[2]].h, obs[p[2]].t))]
        /\ UNCHANGED <<seconds, overflow_checks, conv, locks, obs, by_height,
                       by_time, implied>>

IsImpliedBy ==
    \E p \in Pending(implied) :
        /\ implied' = [implied EXCEPT
               ![p] = Ret(is_implied_by(locks[p[1]], locks[p[2]]))]
        /\ UNCHANGED <<seconds, overflow_checks, conv, locks, obs, by_height,
                       by_time, sat>>

\* No call of from_seconds_ceil is part of the run.
NoConversion ==
    /\ seconds = u32_from(0)
    /\ overflow_checks = FALSE
    /\ conv = None

Calls(S) == [p \in S |-> None]

---------------------------------------------------------------------------
(* Spec: one lock time asked about two observations.                       *)

Init ==
    /\ NoConversion
    /\ locks \in [1 .. 1 -> LockTimes]
    /\ obs \in [1 .. 2 -> Observations]
    /\ by_height = Calls({<<1, 1>>})
    /\ by_time = Calls({<<1, 1>>})
    /\ sat = Calls({<<1, 1>>, <<1, 2>>})
    /\ implied = Calls({})

Next == IsSatisfiedByHeight \/ IsSatisfiedByTime \/ IsSatisfiedBy

Spec == Init /\ [][Next]_vars

(* SpecTime: one conversion of seconds, in either build.                   *)

InitTime ==
    /\ seconds \in SecondsSamples
    /\ overflow_checks \in BOOLEAN
    /\ conv = None
    /\ locks = <<>>
    /\ obs = <<>>
    /\ by_height = Calls({})
    /\ by_time = Calls({})
    /\ sat = Calls({})
    /\ implied = Calls({})

NextTime == FromSecondsCeil

SpecTime == InitTime /\ [][NextTime]_vars

(* SpecImplied: three lock times compared with each other.                 *)

InitImplied ==
    /\ NoConversion
    /\ locks \in [1 .. 3 -> LockTimes]
    /\ obs = <<>>
    /\ by_height = Calls({})
    /\ by_time = Calls({})
    /\ sat = Calls({})
    /\ implied = Calls({<<1, 1>>, <<1, 2>>, <<2, 1>>, <<2, 3>>, <<1, 3>>})

NextImplied == IsImpliedBy

SpecImplied == InitImplied /\ [][NextImplied]_vars

(* SpecSound: two lock times compared, both asked about one observation.   *)

InitSound ==
    /\ NoConversion
    /\ locks \in [1 .. 2 -> LockTimes]
    /\ obs \in [1 .. 1 -> Observations]
    /\ by_height = Calls({})
    /\ by_time = Calls({})
    /\ sat = Calls({<<1, 1>>, <<2, 1>>})
    /\ implied = Calls({<<1, 2>>})

NextSound == IsImpliedBy \/ IsSatisfiedBy

SpecSound == InitSound /\ [][NextSound]_vars

---------------------------------------------------------------------------
(* Claims about Time::from_seconds_ceil, checked under SpecTime.           *)

\* The limit the specification states: 511 + 65535*512.
ClaimedLimit == u32_from(CeilAddend + U16Max * IntervalSeconds)

\* The largest seconds value for which seconds + 511 fits in 32 bits.
LastAddable == U32(U16Max, U16Max - CeilAddend)

\* C1 as stated: from_seconds_ceil(seconds) returns Ok if and only if
\* seconds <= 511 + 65535*512, and the overflow error for every larger
\* seconds.
C1_OkIffWithinClaimedLimit ==
    conv.tag # "None" =>
        /\ conv.tag = "Ok" <=> u32_le(seconds, ClaimedLimit)
        /\ u32_lt(ClaimedLimit, seconds) => conv = Err(TimeOverflowError(seconds))

\* C1 as amended: from_seconds_ceil(seconds) returns Ok for every
\* seconds <= 65535*512 and the overflow error carrying seconds for every
\* larger seconds up to 2^32 - 512; for the 511 values above that, where
\* seconds + 511 does not fit in 32 bits, it does not return the error: it
\* aborts in a build with overflow checks and returns Ok in one without.
C1_OkIffWithinLastFitting ==
    conv.tag # "None" =>
        /\ u32_le(seconds, u32_from(LastFitting)) => conv.tag = "Ok"
        /\ u32_lt(u32_from(LastFitting), seconds) /\ u32_le(seconds, LastAddable)
               => conv = Err(TimeOverflowError(seconds))
        /\ u32_lt(LastAddable, seconds)
               => conv.tag = (IF overflow_checks THEN "Panic" ELSE "Ok")

\* The conversion was refused for the first seconds value past 65535*512,
\* which is below the limit the specification states.
C1_Witness ==
    /\ seconds = u32_from(LastFitting + 1)
    /\ conv = Err(TimeOverflowError(seconds))

\* C2: whenever from_seconds_ceil(seconds) returns Ok(t), t.value() is the
\* ceiling of seconds/512: t.value()*512 >= seconds, and
\* (t.value()-1)*512 < seconds when seconds > 0.
C2_OkIsCeiling ==
    conv.tag = "Ok" =>
        LET n == value(conv.val)
        IN  /\ u32_le(seconds, u32_from(n * IntervalSeconds))
            /\ seconds # u32_from(0) =>
                   /\ n >= 1
                   /\ u32_lt(u32_from((n - 1) * IntervalSeconds), seconds)

\* C9: for every seconds whose ceiling interval count exceeds 65535, the
\* values within 511 of 2^32-1 included, from_seconds_ceil returns the
\* overflow error carrying exactly seconds; it never aborts, and every
\* overflow error it returns carries a seconds value that does not fit.
C9_OverflowIsTypedError ==
    conv.tag # "None" =>
        /\ u32_lt(u32_from(LastFitting), seconds)
               => conv = Err(TimeOverflowError(seconds))
        /\ conv.tag # "Panic"
        /\ conv.tag = "Err" =>
               /\ conv.err.seconds = seconds
               /\ u32_lt(u32_from(LastFitting), seconds)

---------------------------------------------------------------------------
(* Claims about satisfaction, checked under Spec.                          *)

Done(r) == r.tag # "None"

\* The inner u16 of lock time i.
Inner(i) == value(locks[i].inner)

\* C3: a same-unit call never fails: Blocks(l).is_satisfied_by_height(v) and
\* Time(l).is_satisfied_by_time(v) return Ok(true) when l <= v and Ok(false)
\* when l > v.
C3_SameUnitCompares ==
    /\ Done(by_height[1, 1]) /\ locks[1].tag = "Blocks" =>
           /\ Inner(1) <= value(obs[1].h) => by_height[1, 1] = Ok(TRUE)
           /\ Inner(1) > value(obs[1].h) => by_height[1, 1] = Ok(FALSE)
    /\ Done(by_time[1, 1]) /\ locks[1].tag = "Time" =>
           /\ Inner(1) <= value(obs[1].t) => by_time[1, 1] = Ok(TRUE)
           /\ Inner(1) > value(obs[1].t) => by_time[1, 1] = Ok(FALSE)

\* The largest height lock was asked about a smaller height.
C3_Witness ==
    /\ locks[1] = Blocks(Height(U16Max))
    /\ value(obs[1].h) < U16Max
    /\ by_height[1, 1] = Ok(FALSE)

\* C4: a cross-unit call never returns Ok: Time(t).is_satisfied_by_height(h)
\* returns IncompatibleHeightError with height h and time t, and
\* Blocks(h).is_satisfied_by_time(t) returns IncompatibleTimeError with time
\* t and height h.
C4_CrossUnitFails ==
    /\ Done(by_height[1, 1]) /\ locks[1].tag = "Time" =>
           /\ by_height[1, 1].tag = "Err"
           /\ by_height[1, 1].err.type = "IncompatibleHeightError"
           /\ by_height[1, 1].err.height = obs[1].h
           /\ by_height[1, 1].err.time = locks[1].inner
    /\ Done(by_time[1, 1]) /\ locks[1].tag = "Blocks" =>
           /\ by_time[1, 1].tag = "Err"
           /\ by_time[1, 1].err.type = "IncompatibleTimeError"
           /\ by_time[1, 1].err.time = obs[1].t
           /\ by_time[1, 1].err.height = locks[1].inner

\* A height lock was asked about a time that is at least its inner value.
C4_Witness ==
    /\ locks[1].tag = "Blocks"
    /\ Inner(1) <= value(obs[1].t)
    /\ by_time[1, 1].tag = "Err"

\* The operand of the unit of lock time i in observation k.
OwnUnitOperand(i, k) ==
    IF locks[i].tag = "Blocks" THEN value(obs[k].h) ELSE value(obs[k].t)

\* C5: is_satisfied_by is decided by the operand of the lock's own unit
\* alone: Blocks(l).is_satisfied_by(h, t) = (l <= h) and
\* Time(l).is_satisfied_by(h, t) = (l <= t); a unit mismatch is never an
\* error and never satisfies the lock.
C5_OwnUnitDecides ==
    \A p \in DOMAIN sat :
        Done(sat[p]) =>
            /\ sat[p].tag = "Ret"
            /\ sat[p].val = (Inner(p[1]) <= OwnUnitOperand(p[1], p[2]))

\* A height lock was not satisfied by a smaller height although the time
\* operand was the largest there is.
C5_Witness ==
    /\ locks[1].tag = "Blocks"
    /\ value(obs[1].h) < Inner(1)
    /\ value(obs[1].t) = U16Max
    /\ sat[1, 1] = Ret(FALSE)

\* C10: satisfaction is monotonic in the operands: with h <= h2 and t <= t2,
\* is_satisfied_by(h, t) implies is_satisfied_by(h2, t2); a lock of 0 is
\* satisfied by every (h, t), and a lock of 65535 only when the operand of
\* its own unit is 65535.
C10_Monotonic ==
    /\ /\ Done(sat[1, 1]) /\ Done(sat[1, 2])
       /\ value(obs[1].h) <= value(obs[2].h)
       /\ value(obs[1].t) <= value(obs[2].t)
       /\ sat[1, 1].val
       => sat[1, 2].val
    /\ \A p \in DOMAIN sat :
           Done(sat[p]) =>
               /\ Inner(p[1]) = 0 => sat[p].val
               /\ Inner(p[1]) = U16Max /\ sat[p].val
                      => OwnUnitOperand(p[1], p[2]) = U16Max

\* A lock satisfied by an observation was asked about a strictly larger one.
C10_Witness ==
    /\ Inner(1) > 0
    /\ value(obs[1].h) < value(obs[2].h)
    /\ value(obs[1].t) < value(obs[2].t)
    /\ sat[1, 1] = Ret(TRUE)
    /\ sat[1, 2] = Ret(TRUE)

---------------------------------------------------------------------------
(* Claims about implication, checked under SpecImplied and SpecSound.      *)

SameVariant(i, j) == locks[i].tag = locks[j].tag

\* C6: a.is_implied_by(b) is true if and only if a and b are the same
\* variant and a's inner value is <= b's; for different variants it is
\* false in both argument orders.
C6_ImpliedIffSameUnitAndLe ==
    \A p \in DOMAIN implied :
        Done(implied[p]) =>
            implied[p].val = (SameVariant(p[1], p[2]) /\ Inner(p[1]) <= Inner(p[2]))

\* A small height lock and a large time lock were compared in both orders.
C6_Witness ==
    /\ locks[1].tag = "Blocks"
    /\ locks[2].tag = "Time"
    /\ Inner(1) < Inner(2)
    /\ implied[1, 2] = Ret(FALSE)
    /\ implied[2, 1] = Ret(FALSE)

\* C8: is_implied_by is reflexive and, among lock times of one variant, a
\* non-strict total order: one of a.is_implied_by(b), b.is_implied_by(a)
\* holds, both only when a = b, and it is transitive.
C8_TotalOrderWithinUnit ==
    /\ Done(implied[1, 1]) => implied[1, 1].val
    /\ Done(implied[1, 2]) /\ locks[1] = locks[2] => implied[1, 2].val
    /\ Done(implied[1, 2]) /\ Done(implied[2, 1]) /\ SameVariant(1, 2) =>
           /\ implied[1, 2].val \/ implied[2, 1].val
           /\ implied[1, 2].val /\ implied[2, 1].val => locks[1] = locks[2]
    /\ /\ Done(implied[1, 2]) /\ Done(implied[2, 3]) /\ Done(implied[1, 3])
       /\ SameVariant(1, 2) /\ SameVariant(2, 3)
       /\ implied[1, 2].val /\ implied[2, 3].val
       => implied[1, 3].val

\* Three different lock times of one variant were compared along a chain.
C8_Witness ==
    /\ SameVariant(1, 2) /\ SameVariant(2, 3)
    /\ Inner(1) < Inner(2) /\ Inner(2) < Inner(3)
    /\ implied[1, 1] = Ret(TRUE)
    /\ implied[1, 2] = Ret(TRUE)
    /\ implied[2, 1] = Ret(FALSE)
    /\ implied[2, 3] = Ret(TRUE)
    /\ implied[1, 3] = Ret(TRUE)

\* C7: implication is sound for satisfaction: if a.is_implied_by(b) and
\* b.is_satisfied_by(h, t) then a.is_satisfied_by(h, t).
C7_ImpliedIsSound ==
    /\ Done(implied[1, 2]) /\ Done(sat[1, 1]) /\ Done(sat[2, 1])
    /\ implied[1, 2].val
    /\ sat[2, 1].val
    => sat[1, 1].val

\* A lock implied by a strictly larger one that the observation satisfies.
C7_Witness ==
    /\ Inner(1) < Inner(2)
    /\ implied[1, 2] = Ret(TRUE)
    /\ sat[2, 1] = Ret(TRUE)
    /\ sat[1, 1] = Ret(TRUE)

====
